---- MODULE Spec2Model ----
(***************************************************************************)
(* Model of video-editing-mcp: the edit handlers of server.py              *)
(* (generate-edit-from-videos, generate-edit-from-single-video) and the    *)
(* timeline generator of generate_opentimeline.py (timecode_to_frames,     *)
(* create_rational_time, create_otio_timeline).                            *)
(*                                                                         *)
(* Strings that the code parses (timecodes, resolutions) are sequences of  *)
(* one-character strings.  Python floats are IEEE-754 binary64 values,     *)
(* modelled exactly as sign * m * 2^e with m an unbounded natural kept as  *)
(* a little-endian sequence of base-2^15 limbs; every float operation      *)
(* rounds to 53 bits, ties to even.                                        *)
(***************************************************************************)
EXTENDS Integers, Sequences, FiniteSets, TLC

\* ------------------------------------------------------------------------
\* Unbounded naturals (little-endian limbs, no high zero limb, <<>> = 0)
\* ------------------------------------------------------------------------
Base == 32768
LimbBits == 15

RECURSIVE BigNorm(_)
BigNorm(a) ==
    IF a = <<>> THEN <<>>
    ELSE IF a[Len(a)] = 0 THEN BigNorm(SubSeq(a, 1, Len(a) - 1))
    ELSE a

RECURSIVE BigFromInt(_)
BigFromInt(n) ==
    IF n = 0 THEN <<>> ELSE <<n % Base>> \o BigFromInt(n \div Base)

RECURSIVE BigToInt(_)
BigToInt(a) ==
    IF a = <<>> THEN 0 ELSE Head(a) + Base * BigToInt(Tail(a))

RECURSIVE BigAddC(_, _, _)
BigAddC(a, b, c) ==
    IF a = <<>> /\ b = <<>> THEN (IF c = 0 THEN <<>> ELSE <<c>>)
    ELSE LET x == IF a = <<>> THEN 0 ELSE Head(a)
             y == IF b = <<>> THEN 0 ELSE Head(b)
             s == x + y + c
         IN <<s % Base>> \o BigAddC(IF a = <<>> THEN <<>> ELSE Tail(a),
                                    IF b = <<>> THEN <<>> ELSE Tail(b),
                                    s \div Base)

BigAdd(a, b) == BigAddC(a, b, 0)

\* a - b for a >= b
RECURSIVE BigSubB(_, _, _)
BigSubB(a, b, borrow) ==
    IF a = <<>> THEN <<>>
    ELSE LET y == IF b = <<>> THEN 0 ELSE Head(b)
             d == Head(a) - y - borrow
         IN <<d % Base>> \o BigSubB(Tail(a),
                                    IF b = <<>> THEN <<>> ELSE Tail(b),
                                    IF d < 0 THEN 1 ELSE 0)

BigSub(a, b) == BigNorm(BigSubB(a, b, 0))

\* -1, 0, 1 as a < b, a = b, a > b (both normalised)
RECURSIVE BigCmp(_, _)
BigCmp(a, b) ==
    IF Len(a) < Len(b) THEN -1
    ELSE IF Len(a) > Len(b) THEN 1
    ELSE IF a = <<>> THEN 0
    ELSE IF a[Len(a)] < b[Len(b)] THEN -1
    ELSE IF a[Len(a)] > b[Len(b)] THEN 1
    ELSE BigCmp(BigNorm(SubSeq(a, 1, Len(a) - 1)),
                BigNorm(SubSeq(b, 1, Len(b) - 1)))

\* a * k + c for 0 <= k < Base
RECURSIVE BigMulSmallC(_, _, _)
BigMulSmallC(a, k, c) ==
    IF a = <<>> THEN (IF c = 0 THEN <<>> ELSE <<c>>)
    ELSE LET p == Head(a) * k + c
         IN <<p % Base>> \o BigMulSmallC(Tail(a), k, p \div Base)

BigMulSmall(a, k) == BigNorm(BigMulSmallC(a, k, 0))

RECURSIVE BigMul(_, _)
BigMul(a, b) ==
    IF b = <<>> \/ a = <<>> THEN <<>>
    ELSE LET rest == BigMul(a, Tail(b))
         IN BigAdd(BigMulSmall(a, Head(b)),
                   IF rest = <<>> THEN <<>> ELSE <<0>> \o rest)

\* quotient and remainder of a by 0 < d < Base
RECURSIVE BigDivSmallR(_, _, _)
BigDivSmallR(a, d, r) ==
    IF a = <<>> THEN [q |-> <<>>, r |-> r]
    ELSE LET cur  == r * Base + a[Len(a)]
             rest == BigDivSmallR(SubSeq(a, 1, Len(a) - 1), d, cur % d)
         IN [q |-> rest.q \o <<cur \div d>>, r |-> rest.r]

BigDivSmall(a, d) ==
    LET res == BigDivSmallR(a, d, 0) IN [q |-> BigNorm(res.q), r |-> res.r]

Zeros(n) == [i \in 1..n |-> 0]

\* a * 2^k
BigShl(a, k) ==
    IF a = <<>> THEN <<>>
    ELSE Zeros(k \div LimbBits) \o BigMulSmall(a, 2 ^ (k % LimbBits))

\* floor(a / 2^k)
BigShr(a, k) ==
    LET drop == k \div LimbBits IN
    IF drop >= Len(a) THEN <<>>
    ELSE BigDivSmall(SubSeq(a, drop + 1, Len(a)), 2 ^ (k % LimbBits)).q

RECURSIVE BitLenSmall(_)
BitLenSmall(n) == IF n = 0 THEN 0 ELSE 1 + BitLenSmall(n \div 2)

BigBitLen(a) ==
    IF a = <<>> THEN 0
    ELSE LimbBits * (Len(a) - 1) + BitLenSmall(a[Len(a)])

BigIsOdd(a) == a # <<>> /\ Head(a) % 2 = 1

\* ------------------------------------------------------------------------
\* Python float (binary64): [neg, m, e] is (-1)^neg * m * 2^e, m <= 2^53
\* ------------------------------------------------------------------------
MantBits == 53

\* round to nearest, ties to even: q is the kept part, c compares the
\* dropped part with half a unit, sticky tells of a nonzero tail below it
RoundUp(q, c, sticky) ==
    IF c = 1 \/ (c = 0 /\ (sticky \/ BigIsOdd(q))) THEN BigAdd(q, <<1>>) ELSE q

RoundKept(neg, x, e, sticky, k, q) ==
    [neg |-> neg,
     m   |-> RoundUp(q, BigCmp(BigSub(x, BigShl(q, k)), BigShl(<<1>>, k - 1)), sticky),
     e   |-> e + k]

RoundDrop(neg, x, e, sticky, k) == RoundKept(neg, x, e, sticky, k, BigShr(x, k))

\* x * 2^e (plus a nonzero tail below it when sticky) rounded to 53 bits
RoundBig(neg, x, e, sticky) ==
    IF BigBitLen(x) <= MantBits THEN [neg |-> neg, m |-> x, e |-> e]
    ELSE RoundDrop(neg, x, e, sticky, BigBitLen(x) - MantBits)

\* the float nearest to n / d (n >= 0, 0 < d < Base): float("...") of a
\* decimal literal with digits n and scale d
GuardBits == 70
RoundQuotient(neg, qr) == RoundBig(neg, qr.q, 0 - GuardBits, qr.r # 0)

FloatFromDecimal(neg, n, d) ==
    IF n = 0 THEN [neg |-> neg, m |-> <<>>, e |-> 0]
    ELSE RoundQuotient(neg, BigDivSmall(BigShl(BigFromInt(n), GuardBits), d))

FloatFromInt(n) == [neg |-> n < 0, m |-> BigFromInt(IF n < 0 THEN 0 - n ELSE n), e |-> 0]

FloatMul(a, b) ==
    RoundBig(a.neg # b.neg, BigMul(a.m, b.m), a.e + b.e, FALSE)

\* na * xa * 2^e + nb * xb * 2^e
FloatAddAligned(na, xa, nb, xb, e) ==
    RoundBig(IF na = nb \/ BigCmp(xa, xb) >= 0 THEN na ELSE nb,
             IF na = nb THEN BigAdd(xa, xb)
             ELSE IF BigCmp(xa, xb) >= 0 THEN BigSub(xa, xb)
             ELSE BigSub(xb, xa),
             e, FALSE)

FloatAddAt(a, b, e) ==
    FloatAddAligned(a.neg, BigShl(a.m, a.e - e), b.neg, BigShl(b.m, b.e - e), e)

FloatAdd(a, b) == FloatAddAt(a, b, IF a.e < b.e THEN a.e ELSE b.e)

\* int(x): truncation toward zero
FloatToInt(a) ==
    (IF a.neg THEN -1 ELSE 1)
      * (IF a.e >= 0 THEN BigToInt(BigShl(a.m, a.e))
         ELSE BigToInt(BigShr(a.m, 0 - a.e)))

FloatIsZero(a) == a.m = <<>>

\* ------------------------------------------------------------------------
\* Strings as sequences of one-character strings
\* ------------------------------------------------------------------------
DigitChars == <<"0", "1", "2", "3", "4", "5", "6", "7", "8", "9">>
IsDigit(c) == \E i \in 1..10 : DigitChars[i] = c
DigitVal(c) == (CHOOSE i \in 1..10 : DigitChars[i] = c) - 1

\* str.split(sep) for a one-character separator
RECURSIVE SplitAcc(_, _, _)
SplitAcc(s, sep, cur) ==
    IF s = <<>> THEN <<cur>>
    ELSE IF Head(s) = sep THEN <<cur>> \o SplitAcc(Tail(s), sep, <<>>)
    ELSE SplitAcc(Tail(s), sep, Append(cur, Head(s)))

Split(s, sep) == SplitAcc(s, sep, <<>>)

RECURSIVE DigitsVal(_)
DigitsVal(s) ==
    IF s = <<>> THEN 0 ELSE DigitsVal(SubSeq(s, 1, Len(s) - 1)) * 10 + DigitVal(s[Len(s)])

AllDigits(s) == \A i \in 1..Len(s) : IsDigit(s[i])

HasSign(s) == s # <<>> /\ s[1] \in {"-", "+"}
IsNegative(s) == s # <<>> /\ s[1] = "-"
Unsigned(s) == IF HasSign(s) THEN Tail(s) ELSE s

\* float of the digits ip "." fp
FloatOfDigits(neg, ip, fp) ==
    IF AllDigits(ip) /\ AllDigits(fp) /\ Len(ip) + Len(fp) >= 1
    THEN [ok |-> TRUE, val |-> FloatFromDecimal(neg, DigitsVal(ip \o fp), 10 ^ Len(fp))]
    ELSE [ok |-> FALSE, val |-> FloatFromInt(0)]

FloatOfParts(neg, parts) ==
    IF Len(parts) > 2 THEN [ok |-> FALSE, val |-> FloatFromInt(0)]
    ELSE FloatOfDigits(neg, parts[1], IF Len(parts) = 2 THEN parts[2] ELSE <<>>)

\* float(s) for s over digits, ".", "+", "-" and letters other than those
\* of "inf", "nan", exponents and "_": [sign] digits [. digits], at least
\* one digit; anything else is a ValueError (ok = FALSE)
ParseFloat(s) == FloatOfParts(IsNegative(s), Split(Unsigned(s), "."))

\* int(s): [sign] digits, at least one digit; anything else a ValueError
ParseInt(s) ==
    IF Unsigned(s) # <<>> /\ AllDigits(Unsigned(s))
    THEN [ok |-> TRUE, val |-> (IF IsNegative(s) THEN -1 ELSE 1) * DigitsVal(Unsigned(s))]
    ELSE [ok |-> FALSE, val |-> 0]

\* ------------------------------------------------------------------------
\* generate_opentimeline.py: timecode conversion
\* ------------------------------------------------------------------------
DefaultFps == FloatFromInt(24)

total_seconds_NoHours(hours, minutes, seconds) ==
    FloatAdd(FloatMul(minutes, FloatFromInt(60)), seconds)

\* total_seconds = hours * 3600 + minutes * 60 + seconds
total_seconds(hours, minutes, seconds) ==
    FloatAdd(FloatAdd(FloatMul(hours, FloatFromInt(3600)),
                      FloatMul(minutes, FloatFromInt(60))),
             seconds)

FramesOf_SecondsOnly(seconds, fps) == FloatToInt(seconds)

\* return int(total_seconds * fps)
FramesOf(seconds, fps) == FloatToInt(FloatMul(seconds, fps))

FramesOfFloats(hours, minutes, seconds, fps) ==
    IF hours.ok /\ minutes.ok /\ seconds.ok
    THEN [ok |-> TRUE,
          frames |-> FramesOf(total_seconds(hours.val, minutes.val, seconds.val), fps)]
    ELSE [ok |-> FALSE, frames |-> 0]

FramesOfParts(parts, fps) ==
    IF Len(parts) < 3 THEN [ok |-> FALSE, frames |-> 0]
    ELSE FramesOfFloats(ParseFloat(parts[1]), ParseFloat(parts[2]),
                        ParseFloat(parts[3]), fps)

\* timecode_to_frames(timecode, fps): the frame count, or the ValueError
\* raised for the IndexError / ValueError inside the try block (ok = FALSE)
timecode_to_frames(timecode, fps) == FramesOfParts(Split(timecode, ":"), fps)

\* RationalTime(frames, fps)
RationalTime(r, fps) == [ok |-> r.ok, value |-> r.frames, rate |-> fps]

\* create_rational_time(timecode, fps)
create_rational_time(timecode, fps) ==
    RationalTime(timecode_to_frames(timecode, fps), fps)

\* ------------------------------------------------------------------------
\* State
\* ------------------------------------------------------------------------
VARIABLES
    \* create_otio_timeline (generate_opentimeline.py)
    edit_spec,      \* the edit document being materialised
    origin,         \* who built edit_spec: "cli", "videos" or "single"
    tl_pc,          \* "start", "loop", "written", "raised"
    tl_err,         \* "none", "KeyError", "ValueError"
    cut_idx,        \* index of the next cut of video_series_sequential
    track,          \* clips appended to the track so far
    downloads,      \* vj.video_files.download calls made, in order
    dir_exists,     \* whether download_dir exists
    otio_file,      \* [written, clips]: the file at the output path
    \* timecode_to_frames called on its own
    tc_in, fps_in, tc_pc, tc_out,
    tc_prev,        \* the previous conversion of the same caller, if any
    \* the remote project catalog (vj.projects)
    projects,       \* set of [id, name]
    next_id,        \* id the catalog gives the next created project
    \* handle_call_tool of each server process (server.py)
    pc,             \* "idle", "get", "create", "render", "launch", "done", "raised"
    call,           \* the tool name and arguments of the call in progress
    err,            \* the exception the handler raised: [type, cut]
    project,        \* the local variable project
    proj,           \* the local variable proj
    created,        \* the local variable created
    json_edit,      \* the local variable json_edit
    cwd,            \* the process working directory
    effects,        \* external effects of the call in progress, in order
    snapshot,       \* the catalog as it was when the call looked project up
    calls,          \* number of calls the process has received
    history,        \* results of the calls the process has completed
    \* PhotosDBLoader / EmbeddingModelLoader (server.py)
    held,           \* self._db / self._model of each loader
    ld_pc,          \* the loading thread: "loading", "finished", "died"
    acc_pc,         \* each caller's place in the property: "out", "return"
    acc_of,         \* the loader whose property the caller last read
    acc_seen,       \* what the caller's test of self._db / self._model read
    acc_out,        \* how the last access ended: "none", "raised" or the value
    accesses,       \* number of accesses each caller has started
    search          \* the last search-local-videos call and how it ended

tl_vars == <<edit_spec, origin, tl_pc, tl_err, cut_idx, track, downloads,
             dir_exists, otio_file>>
tc_vars == <<tc_in, fps_in, tc_pc, tc_out, tc_prev>>
sv_vars == <<projects, next_id, pc, call, err, project, proj, created, json_edit, cwd,
             effects, snapshot, calls, history>>
ld_vars == <<held, ld_pc, acc_pc, acc_of, acc_seen, acc_out, accesses, search>>
vars == <<tl_vars, tc_vars, sv_vars, ld_vars>>

\* ------------------------------------------------------------------------
\* Inputs
\* ------------------------------------------------------------------------
D2(n) == <<DigitChars[(n \div 10) + 1], DigitChars[(n % 10) + 1]>>
D3(n) == <<DigitChars[(n \div 100) + 1]>> \o D2(n % 100)

\* the timecode string "HH:MM:SS.mmm"
TC(h, m, s, ms) == D2(h) \o <<":">> \o D2(m) \o <<":">> \o D2(s) \o <<".">> \o D3(ms)

\* malformed timecodes
TcTwoParts == <<"0", "0", ":", "0", "5">>
TcLetters  == <<"0", "0", ":", "0", "0", ":", "a", "b">>
TcFourParts == <<"0", "0", ":", "0", "0", ":", "0", "1", ":", "0", "0">>
TcNegative == <<"0", "0", ":", "0", "0", ":", "-", "5">>

\* the videos known to the remote catalog (vj.video_files.get)
VideoIds == {"v1", "v2", "v3"}
VideoFile(id) ==
    CASE id = "v1" -> [id |-> "v1", name |-> "beach", download_url |-> TRUE,
                       has_fps |-> TRUE, fps |-> FloatFromInt(30)]
      [] id = "v2" -> [id |-> "v2", name |-> "city", download_url |-> FALSE,
                       has_fps |-> TRUE, fps |-> FloatFromInt(24)]
      [] id = "v3" -> [id |-> "v3", name |-> "beach", download_url |-> TRUE,
                       has_fps |-> FALSE, fps |-> FloatFromInt(0)]

RawCut(v, s, e) == [video_id |-> v, video_start_time |-> s, video_end_time |-> e]

\* raw cuts a caller may send
CutPool ==
    { RawCut("v1", TC(0, 0, 4, 100), TC(0, 0, 5, 0)),
      RawCut("v3", TC(0, 0, 4, 100), TC(0, 0, 8, 200)),
      RawCut("v2", TC(0, 0, 1, 0),   TcLetters),
      RawCut("v1", TC(0, 0, 2, 0),   TC(0, 0, 2, 0)),
      RawCut("v3", TC(0, 1, 0, 0),   TC(0, 0, 30, 0)),
      RawCut("v1", TC(0, 0, 1, 0),   TcTwoParts) }

MaxCuts == 3

RECURSIVE SeqsUpTo(_, _)
SeqsUpTo(S, n) ==
    IF n = 0 THEN {<<>>}
    ELSE LET shorter == SeqsUpTo(S, n - 1)
         IN shorter \cup {Append(q, x) : q \in {r \in shorter : Len(r) = n - 1}, x \in S}

EditPool == SeqsUpTo(CutPool, MaxCuts)

\* ------------------------------------------------------------------------
\* server.py: the edit document built by the two handlers
\* ------------------------------------------------------------------------
NormalizedCut(video_id, cut) ==
    [video_id         |-> video_id,
     video_start_time |-> cut.video_start_time,
     video_end_time   |-> cut.video_end_time,
     type             |-> "videofile",
     audio_levels     |-> << [audio_level |-> <<"0", ".", "5">>,
                              start_time  |-> cut.video_start_time,
                              end_time    |-> cut.video_end_time] >>]

updated_edit_videos_Reversed(edit) ==
    [k \in 1..Len(edit) |->
        NormalizedCut(edit[Len(edit) + 1 - k].video_id, edit[Len(edit) + 1 - k])]

\* updated_edit of generate-edit-from-videos
updated_edit_videos(edit) ==
    [k \in 1..Len(edit) |-> NormalizedCut(edit[k].video_id, edit[k])]

\* updated_edit of generate-edit-from-single-video
updated_edit_single(video_id, edit) ==
    [k \in 1..Len(edit) |-> NormalizedCut(video_id, edit[k])]

\* json_edit of generate-edit-from-videos
json_edit_videos(resolution, name, updated_edit) ==
    [video_edit_version      |-> "1.0",
     video_output_format     |-> "mp4",
     video_output_resolution |-> resolution,
     video_output_fps        |-> 60,
     edit_name               |-> name,
     video_output_filename   |-> "output_video.mp4",
     audio_overlay           |-> <<>>,
     video_series_sequential |-> updated_edit]

\* json_edit of generate-edit-from-single-video
json_edit_single(resolution, updated_edit) ==
    [video_edit_version      |-> "1.0",
     video_output_format     |-> "mp4",
     video_output_resolution |-> resolution,
     video_output_fps        |-> 60,
     video_output_filename   |-> "output_video.mp4",
     audio_overlay           |-> <<>>,
     video_series_sequential |-> updated_edit]

\* a document handed to generate_opentimeline.py by another caller: the
\* fields create_otio_timeline reads
cli_edit_spec(name, cuts) ==
    [name |-> name, video_series_sequential |-> cuts]

DefaultResolution == <<"1", "0", "8", "0", "x", "1", "9", "2", "0">>

\* ------------------------------------------------------------------------
\* server.py: argument checks of the two edit handlers
\* ------------------------------------------------------------------------
Res1080p   == <<"1", "0", "8", "0", "p">>
Res720p    == <<"7", "2", "0", "p">>
Res1920x1080 == <<"1", "9", "2", "0", "x", "1", "0", "8", "0">>
Res1280x720  == <<"1", "2", "8", "0", "x", "7", "2", "0">>
Res640x480 == <<"6", "4", "0", "x", "4", "8", "0">>
ResBogus   == <<"b", "o", "g", "u", "s">>
Res640xabc == <<"6", "4", "0", "x", "a", "b", "c">>
Res0x480   == <<"0", "x", "4", "8", "0">>
ResNeg640x480 == <<"-", "6", "4", "0", "x", "4", "8", "0">>
Res1x2x3   == <<"1", "x", "2", "x", "3">>
\* an absent (None) or empty argument
NoString == <<>>
NoProject == 0

\* generate-edit-from-videos, lines 748-755: default, then the presets
resolution_videos(resolution) ==
    IF resolution = NoString THEN DefaultResolution
    ELSE IF resolution = Res1080p THEN Res1920x1080
    ELSE IF resolution = Res720p THEN Res1280x720
    ELSE resolution

\* generate-edit-from-single-video, lines 879-880: default only
resolution_single(resolution) ==
    IF resolution = NoString THEN DefaultResolution ELSE resolution

\* the try block of lines 757-759 / 882-884 passes:
\*   w, h = resolution.split("x"); _ = f"{int(w)}x{int(w)}"
ResolutionPasses(resolution) ==
    /\ Len(Split(resolution, "x")) = 2
    /\ ParseInt(Split(resolution, "x")[1]).ok

HasFields(cut, fields) == fields \subseteq DOMAIN cut

\* the keys the list comprehension reads from each cut
cut_keys(tool) ==
    IF tool = "videos" THEN {"video_id", "video_start_time", "video_end_time"}
    ELSE {"video_start_time", "video_end_time"}

\* the cut at which the list comprehension raises KeyError, 0 if none: the
\* first cut, in list order, without one of the keys
first_bad_cut(edit, keys) ==
    IF \E k \in 1..Len(edit) : ~HasFields(edit[k], keys)
    THEN CHOOSE k \in 1..Len(edit) :
            /\ ~HasFields(edit[k], keys)
            /\ \A j \in 1..(k - 1) : HasFields(edit[j], keys)
    ELSE 0

\* the checks of generate-edit-from-videos before updated_edit, lines 744-763
precheck_videos(a) ==
    IF a.edit = <<>> THEN "ValueError"
    ELSE IF a.project_id = NoProject THEN "ValueError"
    ELSE IF a.name = "" THEN "ValueError"
    ELSE IF ~ResolutionPasses(resolution_videos(a.resolution)) THEN "ValueError"
    ELSE "none"

\* the error generate-edit-from-videos raises on its arguments, or "none":
\* the KeyError of the list comprehension is not caught
check_videos(a) ==
    IF precheck_videos(a) # "none" THEN precheck_videos(a)
    ELSE IF first_bad_cut(a.edit, cut_keys("videos")) # 0 THEN "KeyError"
    ELSE "none"

\* the checks of generate-edit-from-single-video before updated_edit,
\* lines 873-888
precheck_single(a) ==
    IF a.edit = <<>> THEN "ValueError"
    ELSE IF a.project_id = NoProject THEN "ValueError"
    ELSE IF a.video_id = "" THEN "ValueError"
    ELSE IF ~ResolutionPasses(resolution_single(a.resolution)) THEN "ValueError"
    ELSE "none"

\* the error generate-edit-from-single-video raises on its arguments, or
\* "none": lines 907-908 turn the KeyError into a ValueError
check_single(a) ==
    IF precheck_single(a) # "none" THEN precheck_single(a)
    ELSE IF first_bad_cut(a.edit, cut_keys("single")) # 0 THEN "ValueError"
    ELSE "none"

check_args(a) == IF a.tool = "videos" THEN check_videos(a) ELSE check_single(a)

precheck_args(a) == IF a.tool = "videos" THEN precheck_videos(a) ELSE precheck_single(a)

\* the exception that leaves the handler, and the cut whose keys raised it
NoError == [type |-> "none", cut |-> 0]
raise_of(a) ==
    [type |-> check_args(a),
     cut  |-> IF precheck_args(a) # "none" THEN 0
              ELSE first_bad_cut(a.edit, cut_keys(a.tool))]

\* json_edit as the handler of the call builds it
build_json_edit(a) ==
    IF a.tool = "videos"
    THEN json_edit_videos(resolution_videos(a.resolution), a.name,
                          updated_edit_videos(a.edit))
    ELSE json_edit_single(resolution_single(a.resolution),
                          updated_edit_single(a.video_id, a.edit))

\* ------------------------------------------------------------------------
\* server.py: the handlers as processes
\* ------------------------------------------------------------------------
Procs == {1, 2}
MaxCalls == 2

NoProj == [id |-> 0, name |-> 0]
NoCall == [tool |-> "none", edit |-> <<>>, project_id |-> NoProject, name |-> "",
           resolution |-> NoString, video_id |-> ""]
NoEdit == cli_edit_spec("", <<>>)

Effect(op, id, name, dir) == [op |-> op, id |-> id, name |-> name, dir |-> dir]

\* vj.projects.get(project) finds the project with that id
ProjectsGet_ByName(catalog, id) == {pr \in catalog : pr.id = id \/ pr.name = id}
ProjectsGet(catalog, id) == {pr \in catalog : pr.id = id}

\* vj.projects.create(name=project, description="Claude generated project")
\* adds a project with a new id to the catalog, whatever the catalog holds
ProjectsCreate_Description(catalog, id, name) == [id |-> id, name |-> 0]
ProjectsCreate_UniqueName(catalog, id, name) ==
    IF \E pr \in catalog : pr.name = name
    THEN CHOOSE pr \in catalog : pr.name = name
    ELSE [id |-> id, name |-> name]
ProjectsCreate(catalog, id, name) == [id |-> id, name |-> name]

\* the handler is entered: lines 736-793 / 864-920
Call(p, a) ==
    /\ pc[p] = "idle"
    /\ calls[p] < MaxCalls
    /\ calls' = [calls EXCEPT ![p] = @ + 1]
    /\ call' = [call EXCEPT ![p] = a]
    /\ err' = [err EXCEPT ![p] = raise_of(a)]
    /\ effects' = [effects EXCEPT ![p] = <<>>]
    /\ created' = [created EXCEPT ![p] = FALSE]
    /\ project' = [project EXCEPT ![p] = a.project_id]
    /\ IF check_args(a) = "none"
       THEN /\ pc' = [pc EXCEPT ![p] = "get"]
            /\ json_edit' = [json_edit EXCEPT ![p] = build_json_edit(a)]
       ELSE /\ pc' = [pc EXCEPT ![p] = "raised"]
            /\ UNCHANGED json_edit
    /\ UNCHANGED <<projects, next_id, proj, cwd, snapshot, history>>
    /\ UNCHANGED <<tl_vars, tc_vars, ld_vars>>

\* lines 796 / 923: proj = vj.projects.get(project) returns
GetFound(p) ==
    /\ pc[p] = "get"
    /\ \E pr \in ProjectsGet(projects, project[p]) :
          proj' = [proj EXCEPT ![p] = pr]
    /\ snapshot' = [snapshot EXCEPT ![p] = projects]
    /\ effects' = [effects EXCEPT ![p] = Append(@, Effect("get_ok", project[p], 0, cwd[p]))]
    /\ pc' = [pc EXCEPT ![p] = "render"]
    /\ UNCHANGED <<projects, next_id, call, err, project, created, json_edit, cwd,
                   calls, history>>
    /\ UNCHANGED <<tl_vars, tc_vars, ld_vars>>

\* lines 796-797 / 923-924: vj.projects.get(project) raises, because there
\* is no such project or for any other reason
GetFails(p) ==
    /\ pc[p] = "get"
    /\ snapshot' = [snapshot EXCEPT ![p] = projects]
    /\ effects' = [effects EXCEPT ![p] = Append(@, Effect("get_fail", project[p], 0, cwd[p]))]
    /\ pc' = [pc EXCEPT ![p] = "create"]
    /\ UNCHANGED <<projects, next_id, call, err, project, proj, created, json_edit, cwd,
                   calls, history>>
    /\ UNCHANGED <<tl_vars, tc_vars, ld_vars>>

\* lines 799-803 / 925-929: create the project, project = proj.id
CreateAs(p, pr) ==
    /\ projects' = projects \cup {pr}
    /\ next_id' = next_id + 1
    /\ proj' = [proj EXCEPT ![p] = pr]
    /\ project' = [project EXCEPT ![p] = pr.id]
    /\ created' = [created EXCEPT ![p] = TRUE]
    /\ effects' = [effects EXCEPT ![p] = Append(@, Effect("create", pr.id, pr.name, cwd[p]))]

Create(p) ==
    /\ pc[p] = "create"
    /\ CreateAs(p, ProjectsCreate(projects, next_id, project[p]))
    /\ pc' = [pc EXCEPT ![p] = "render"]
    /\ UNCHANGED <<call, err, json_edit, cwd, snapshot, calls, history>>
    /\ UNCHANGED <<tl_vars, tc_vars, ld_vars>>

\* lines 807 / 933: edit = vj.projects.render_edit(project, json_edit)
Render(p) ==
    /\ pc[p] = "render"
    /\ effects' = [effects EXCEPT ![p] = Append(@, Effect("render", project[p], 0, cwd[p]))]
    /\ pc' = [pc EXCEPT ![p] = "launch"]
    /\ UNCHANGED <<projects, next_id, call, err, project, proj, created, json_edit, cwd,
                   snapshot, calls, history>>
    /\ UNCHANGED <<tl_vars, tc_vars, ld_vars>>

\* lines 809-826: write <project>.json, launch generate_opentimeline.py
otio_effects(p) ==
    IF call[p].tool = "videos"
    THEN << Effect("write_json", project[p], 0, cwd[p]),
            Effect("popen_otio", project[p], 0, cwd[p]) >>
    ELSE <<>>

\* lines 827-844 / 936-953: os.chdir("./tools") and the viewer; a failing
\* chdir is caught and logged
viewer_effects(p) ==
    IF cwd[p] = "root"
    THEN << Effect("chdir", project[p], 0, "tools"),
            Effect("popen_viewer", project[p], proj[p].name, "tools") >>
    ELSE << Effect("chdir_failed", project[p], 0, cwd[p]) >>

Launch(p) ==
    /\ pc[p] = "launch"
    /\ effects' = [effects EXCEPT ![p] = @ \o otio_effects(p) \o viewer_effects(p)]
    /\ cwd' = [cwd EXCEPT ![p] = "tools"]
    /\ pc' = [pc EXCEPT ![p] = "done"]
    /\ UNCHANGED <<projects, next_id, call, err, project, proj, created, json_edit,
                   snapshot, calls, history>>
    /\ UNCHANGED <<tl_vars, tc_vars, ld_vars>>

\* the locals of a handler that has been left
LeaveHandler(p) ==
    /\ pc' = [pc EXCEPT ![p] = "idle"]
    /\ call' = [call EXCEPT ![p] = NoCall]
    /\ err' = [err EXCEPT ![p] = NoError]
    /\ project' = [project EXCEPT ![p] = NoProject]
    /\ proj' = [proj EXCEPT ![p] = NoProj]
    /\ created' = [created EXCEPT ![p] = FALSE]
    /\ json_edit' = [json_edit EXCEPT ![p] = NoEdit]
    /\ effects' = [effects EXCEPT ![p] = <<>>]
    /\ snapshot' = [snapshot EXCEPT ![p] = {}]

\* lines 848-862 / 956-971: the handler returns its text
Return(p) ==
    /\ pc[p] = "done"
    /\ history' = [history EXCEPT ![p] =
                      Append(@, [project_id |-> call[p].project_id,
                                 created    |-> created[p],
                                 proj       |-> proj[p]])]
    /\ LeaveHandler(p)
    /\ UNCHANGED <<projects, next_id, cwd, calls>>
    /\ UNCHANGED <<tl_vars, tc_vars, ld_vars>>

\* the exception leaves the handler
Fail(p) ==
    /\ pc[p] = "raised"
    /\ LeaveHandler(p)
    /\ UNCHANGED <<projects, next_id, cwd, calls, history>>
    /\ UNCHANGED <<tl_vars, tc_vars, ld_vars>>

ExistingProject == [id |-> 1, name |-> 50]

SvInit ==
    /\ projects = {ExistingProject}
    /\ next_id = 2
    /\ pc = [p \in Procs |-> "idle"]
    /\ call = [p \in Procs |-> NoCall]
    /\ err = [p \in Procs |-> NoError]
    /\ project = [p \in Procs |-> NoProject]
    /\ proj = [p \in Procs |-> NoProj]
    /\ created = [p \in Procs |-> FALSE]
    /\ json_edit = [p \in Procs |-> NoEdit]
    /\ cwd = [p \in Procs |-> "root"]
    /\ effects = [p \in Procs |-> <<>>]
    /\ snapshot = [p \in Procs |-> {}]
    /\ calls = [p \in Procs |-> 0]
    /\ history = [p \in Procs |-> <<>>]

\* arguments a caller may send
CutA     == RawCut("v1", TC(0, 0, 0, 0), TC(0, 0, 5, 0))
CutB     == RawCut("v2", TC(0, 0, 1, 0), TC(0, 0, 4, 0))
CutNoEnd == [video_id |-> "v1", video_start_time |-> TC(0, 0, 1, 0)]
CutNoId  == [video_start_time |-> TC(0, 0, 1, 0), video_end_time |-> TC(0, 0, 2, 0)]

RawEditPool == { <<>>, <<CutA>>, <<CutA, CutB>>, <<CutA, CutNoEnd>>, <<CutNoId>> }
ResolutionPool ==
    {NoString, Res1080p, Res720p, Res640x480, ResBogus, Res640xabc, Res0x480,
     ResNeg640x480, Res1x2x3}
\* the id of the existing project, the id the first created project will
\* get, a name no project has, and no identifier at all
ProjectArgPool == {1, 2, 60, NoProject}

Args(tool, edit, project_id, name, resolution, video_id) ==
    [tool |-> tool, edit |-> edit, project_id |-> project_id, name |-> name,
     resolution |-> resolution, video_id |-> video_id]

ArgPool ==
    {Args("videos", e, i, n, r, "") :
        e \in RawEditPool, i \in ProjectArgPool, n \in {"", "demo"}, r \in ResolutionPool}
    \cup
    {Args("single", e, i, "", r, v) :
        e \in RawEditPool, i \in ProjectArgPool, r \in ResolutionPool, v \in {"", "v1"}}

\* well-formed requests that differ in tool and project identifier only
ResolveArgPool ==
    {Args(t, <<CutA>>, i, "demo", Res640x480, "v1") :
        t \in {"videos", "single"}, i \in {1, 60}}

\* ------------------------------------------------------------------------
\* generate_opentimeline.py: create_otio_timeline
\* ------------------------------------------------------------------------
Cuts(doc) == doc.video_series_sequential

fps_of_Always24(video) == DefaultFps

\* fps = video.fps if video.fps else 24.0
fps_of(video) ==
    IF video.has_fps /\ ~FloatIsZero(video.fps) THEN video.fps ELSE DefaultFps

\* local_file = os.path.join(download_dir, f"{video.name}.mp4")
local_file(video) == <<"downloads", video.name, ".mp4">>

\* if not video.download_url: ... continue
ShouldSkip_Never(video) == FALSE
ShouldSkip(video) == ~video.download_url

\* start_time and end_time of a cut, each a RationalTime or a ValueError
TimesAt(cut, fps) ==
    [start_time |-> create_rational_time(cut.video_start_time, fps),
     end_time   |-> create_rational_time(cut.video_end_time, fps)]

cut_times(cut) == TimesAt(cut, fps_of(VideoFile(cut.video_id)))

\* otio.schema.Clip(name, ExternalReference(local_file),
\*                  TimeRange(start_time, end_time - start_time))
Clip(name, video, t) ==
    [name       |-> <<"clip_", name>>,
     target_url |-> local_file(video),
     start      |-> [value |-> t.start_time.value, rate |-> t.start_time.rate],
     duration   |-> [value |-> t.end_time.value - t.start_time.value,
                     rate  |-> t.start_time.rate]]

clip_of(doc, cut) == Clip(doc.name, VideoFile(cut.video_id), cut_times(cut))

\* track.append(clip)
TrackAppend_Prepend(t, clip) == <<clip>> \o t
TrackAppend(t, clip) == Append(t, clip)

\* the for loop has run out of cuts
LoopFinished_OffByOne(idx, cuts) == idx >= Len(cuts)
LoopFinished(idx, cuts) == idx > Len(cuts)

NoFile == [written |-> FALSE, clips |-> <<>>]

\* lines 45-49: make the download directory, build the timeline and the
\* track named edit_spec["name"]
TlStart ==
    /\ tl_pc = "start"
    /\ dir_exists' = TRUE
    /\ IF "name" \in DOMAIN edit_spec
       THEN tl_pc' = "loop" /\ tl_err' = "none"
       ELSE tl_pc' = "raised" /\ tl_err' = "KeyError"
    /\ UNCHANGED <<edit_spec, origin, cut_idx, track, downloads, otio_file>>
    /\ UNCHANGED <<tc_vars, sv_vars, ld_vars>>

\* lines 53-58: the source has no download URL, the cut is skipped
TlSkip ==
    /\ tl_pc = "loop"
    /\ ~LoopFinished(cut_idx, Cuts(edit_spec))
    /\ ShouldSkip(VideoFile(Cuts(edit_spec)[cut_idx].video_id))
    /\ cut_idx' = cut_idx + 1
    /\ UNCHANGED <<edit_spec, origin, tl_pc, tl_err, track, downloads,
                   dir_exists, otio_file>>
    /\ UNCHANGED <<tc_vars, sv_vars, ld_vars>>

\* lines 59-72: download, convert both timecodes, append the clip
AppendClip(doc, cut, video, t) ==
    /\ ~ShouldSkip(video)
    /\ t.start_time.ok /\ t.end_time.ok
    /\ downloads' = Append(downloads, [id |-> video.id, file |-> local_file(video)])
    /\ track' = TrackAppend(track, Clip(doc.name, video, t))

AppendCut(doc, cut) == AppendClip(doc, cut, VideoFile(cut.video_id), cut_times(cut))

TlAppend ==
    /\ tl_pc = "loop"
    /\ ~LoopFinished(cut_idx, Cuts(edit_spec))
    /\ AppendCut(edit_spec, Cuts(edit_spec)[cut_idx])
    /\ cut_idx' = cut_idx + 1
    /\ UNCHANGED <<edit_spec, origin, tl_pc, tl_err, dir_exists, otio_file>>
    /\ UNCHANGED <<tc_vars, sv_vars, ld_vars>>

\* lines 59-62: download, then a timecode conversion raises ValueError
RaiseOnTimes(video, t) ==
    /\ ~ShouldSkip(video)
    /\ ~(t.start_time.ok /\ t.end_time.ok)
    /\ downloads' = Append(downloads, [id |-> video.id, file |-> local_file(video)])

RaiseOnCut(cut) == RaiseOnTimes(VideoFile(cut.video_id), cut_times(cut))

TlBadTimecode ==
    /\ tl_pc = "loop"
    /\ ~LoopFinished(cut_idx, Cuts(edit_spec))
    /\ RaiseOnCut(Cuts(edit_spec)[cut_idx])
    /\ tl_pc' = "raised"
    /\ tl_err' = "ValueError"
    /\ UNCHANGED <<edit_spec, origin, cut_idx, track, dir_exists, otio_file>>
    /\ UNCHANGED <<tc_vars, sv_vars, ld_vars>>

\* line 74: otio.adapters.write_to_file(timeline, filename)
TlWrite ==
    /\ tl_pc = "loop"
    /\ LoopFinished(cut_idx, Cuts(edit_spec))
    /\ otio_file' = [written |-> TRUE, clips |-> track]
    /\ tl_pc' = "written"
    /\ UNCHANGED <<edit_spec, origin, tl_err, cut_idx, track, downloads, dir_exists>>
    /\ UNCHANGED <<tc_vars, sv_vars, ld_vars>>

TlIdle ==
    /\ edit_spec = cli_edit_spec("", <<>>)
    /\ origin = "cli"
    /\ tl_pc = "off"
    /\ tl_err = "none"
    /\ cut_idx = 1
    /\ track = <<>>
    /\ downloads = <<>>
    /\ dir_exists = FALSE
    /\ otio_file = NoFile

\* ------------------------------------------------------------------------
\* timecode_to_frames called on its own
\* ------------------------------------------------------------------------
Decimal(n, d) == [n |-> n, d |-> d]
FpsPool == {Decimal(24, 1), Decimal(25, 1), Decimal(30, 1), Decimal(2997, 100)}

TimecodePool ==
    {TC(h, m, s, ms) : h \in {0, 1}, m \in {0, 1}, s \in {0, 1, 4},
                       ms \in {0, 100, 160, 500}}
    \cup {TcTwoParts, TcLetters, TcFourParts, TcNegative}

\* no earlier conversion
NoPrev == [timecode |-> <<>>, frames |-> -1]

TcConvert ==
    /\ tc_pc = "call"
    /\ tc_out' = timecode_to_frames(tc_in, FloatFromDecimal(FALSE, fps_in.n, fps_in.d))
    /\ tc_pc' = IF tc_out'.ok THEN "returned" ELSE "raised"
    /\ UNCHANGED <<tc_in, fps_in, tc_prev>>
    /\ UNCHANGED <<tl_vars, sv_vars, ld_vars>>

\* the caller converts a second timecode at the same rate once the first
\* has returned (start_time, then end_time); a raise ends the caller
TcAgain(t) ==
    /\ tc_pc = "returned"
    /\ tc_prev = NoPrev
    /\ tc_prev' = [timecode |-> tc_in, frames |-> tc_out.frames]
    /\ tc_in' = t
    /\ tc_pc' = "call"
    /\ tc_out' = [ok |-> FALSE, frames |-> 0]
    /\ UNCHANGED fps_in
    /\ UNCHANGED <<tl_vars, sv_vars, ld_vars>>

TcSecond == \E t \in TimecodePool : TcAgain(t)

TcIdle ==
    /\ tc_in = <<>>
    /\ fps_in = Decimal(24, 1)
    /\ tc_pc = "off"
    /\ tc_out = [ok |-> FALSE, frames |-> 0]
    /\ tc_prev = NoPrev

\* ------------------------------------------------------------------------
\* server.py: resources loaded in the background
\* ------------------------------------------------------------------------
Loaders == {"photos", "model"}
Callers == {1, 2}
MaxAccesses == 2

\* self._db = None / self._model = None, and the loaded object
NoResource == "None"
Loaded(r) == IF r = "photos" THEN "PhotosDB" ELSE "AutoModel"

\* the thread's load(): self._db = osxphotos.PhotosDB() /
\* self._model = AutoModel.from_pretrained(...)
Load(r) ==
    /\ ld_pc[r] = "loading"
    /\ held' = [held EXCEPT ![r] = Loaded(r)]
    /\ ld_pc' = [ld_pc EXCEPT ![r] = "finished"]
    /\ UNCHANGED <<acc_pc, acc_of, acc_seen, acc_out, accesses, search>>
    /\ UNCHANGED <<tl_vars, tc_vars, sv_vars>>

\* the constructor of the resource raises inside the thread: the thread
\* ends and the attribute stays None
LoadDies(r) ==
    /\ ld_pc[r] = "loading"
    /\ ld_pc' = [ld_pc EXCEPT ![r] = "died"]
    /\ UNCHANGED <<held, acc_pc, acc_of, acc_seen, acc_out, accesses, search>>
    /\ UNCHANGED <<tl_vars, tc_vars, sv_vars>>

\* if self._db is None
IsNone_Never(v) == FALSE
IsNone(v) == v = NoResource

\* the property is read: the test of the attribute, and the raise when it
\* is None
Access(c, r) ==
    /\ acc_pc[c] = "out"
    /\ accesses[c] < MaxAccesses
    /\ accesses' = [accesses EXCEPT ![c] = @ + 1]
    /\ acc_of' = [acc_of EXCEPT ![c] = r]
    /\ acc_seen' = [acc_seen EXCEPT ![c] = held[r]]
    /\ IF IsNone(held[r])
       THEN /\ acc_out' = [acc_out EXCEPT ![c] = "raised"]
            /\ UNCHANGED acc_pc
       ELSE /\ acc_out' = [acc_out EXCEPT ![c] = "none"]
            /\ acc_pc' = [acc_pc EXCEPT ![c] = "return"]
    /\ UNCHANGED <<held, ld_pc, search>>
    /\ UNCHANGED <<tl_vars, tc_vars, sv_vars>>

\* return self._db / return self._model: the attribute is read again
AccessReturn(c) ==
    /\ acc_pc[c] = "return"
    /\ acc_out' = [acc_out EXCEPT ![c] = held[acc_of[c]]]
    /\ acc_pc' = [acc_pc EXCEPT ![c] = "out"]
    /\ UNCHANGED <<held, ld_pc, acc_of, acc_seen, accesses, search>>
    /\ UNCHANGED <<tl_vars, tc_vars, sv_vars>>

\* search_local_videos.py line 32: def get_videos_by_keyword(photosdb, keyword)
KeywordParams == <<"photosdb", "keyword">>

\* a call of get_videos_by_keyword with the positional arguments args: a
\* TypeError unless there is one argument for each parameter, else the
\* videos of the library that carry the label
get_videos_by_keyword(args) ==
    IF Len(args) # Len(KeywordParams) THEN [raised |-> "TypeError", videos |-> <<>>]
    ELSE [raised |-> "none",
          videos |-> IF args[2] = "beach" THEN <<"IMG_1.mov">> ELSE <<>>]

\* lines 717-721: the dates are passed on only when both are given
date_of(a, date) == IF a.start_date # "" /\ a.end_date # "" THEN date ELSE "None"

\* the search-local-videos handler, lines 705-733, with the attribute db of
\* photos_loader as it is when the handler reads it: what the call raises
\* ("none" if it returns) and the videos it returns
search_local_videos(a, db) ==
    IF ~a.load_photos_db THEN [raised |-> "ValueError", videos |-> <<>>]
    ELSE IF a.keyword = "" THEN [raised |-> "ValueError", videos |-> <<>>]
    ELSE IF IsNone(db) THEN [raised |-> "RuntimeError", videos |-> <<>>]
    ELSE IF get_videos_by_keyword(<<db, a.keyword, date_of(a, a.start_date),
                                    date_of(a, a.end_date)>>).raised # "none"
         THEN [raised |-> "RuntimeError", videos |-> <<>>]
    ELSE get_videos_by_keyword(<<db, a.keyword, date_of(a, a.start_date),
                                 date_of(a, a.end_date)>>)

\* a search-local-videos call is handled
Search(a) ==
    /\ search' = [args |-> a, db |-> held["photos"], done |-> TRUE,
                  out |-> search_local_videos(a, held["photos"])]
    /\ UNCHANGED <<held, ld_pc, acc_pc, acc_of, acc_seen, acc_out, accesses>>
    /\ UNCHANGED <<tl_vars, tc_vars, sv_vars>>

\* both loaders constructed, their threads started, nothing read yet
LdInit ==
    /\ held = [r \in Loaders |-> NoResource]
    /\ ld_pc = [r \in Loaders |-> "loading"]
    /\ acc_pc = [c \in Callers |-> "out"]
    /\ acc_of = [c \in Callers |-> "photos"]
    /\ acc_seen = [c \in Callers |-> NoResource]
    /\ acc_out = [c \in Callers |-> "none"]
    /\ accesses = [c \in Callers |-> 0]
    /\ search = [args |-> [load_photos_db |-> FALSE, keyword |-> "",
                           start_date |-> "", end_date |-> ""],
                 db |-> NoResource, done |-> FALSE,
                 out |-> [raised |-> "none", videos |-> <<>>]]

\* ------------------------------------------------------------------------
\* Specifications
\* ------------------------------------------------------------------------
EditNames == {"demo"}

\* one server process handling calls one after the other
Init ==
    /\ SvInit
    /\ LdInit
    /\ TlIdle
    /\ TcIdle

Next ==
    \/ \E a \in ArgPool : Call(1, a)
    \/ GetFound(1)
    \/ GetFails(1)
    \/ Create(1)
    \/ Render(1)
    \/ Launch(1)
    \/ Return(1)
    \/ Fail(1)

Spec == Init /\ [][Next]_vars

\* two server processes that share the remote catalog
NextResolve ==
    \E p \in Procs :
        \/ \E a \in ResolveArgPool : Call(p, a)
        \/ GetFound(p)
        \/ GetFails(p)
        \/ Create(p)
        \/ Render(p)
        \/ Launch(p)
        \/ Return(p)

SpecResolve == Init /\ [][NextResolve]_vars

\* one run of generate_opentimeline.py on a document of any origin
InitTimeline ==
    /\ \E e \in EditPool, o \in {"cli", "videos", "single"}, n \in EditNames :
          /\ origin = o
          /\ edit_spec = CASE o = "cli"    -> cli_edit_spec(n, updated_edit_videos(e))
                           [] o = "videos" -> json_edit_videos(DefaultResolution, n,
                                                               updated_edit_videos(e))
                           [] o = "single" -> json_edit_single(DefaultResolution,
                                                               updated_edit_single("v1", e))
    /\ tl_pc = "start"
    /\ tl_err = "none"
    /\ cut_idx = 1
    /\ track = <<>>
    /\ downloads = <<>>
    /\ dir_exists \in BOOLEAN
    /\ otio_file = NoFile
    /\ TcIdle
    /\ SvInit
    /\ LdInit

NextTimeline ==
    \/ TlStart
    \/ TlSkip
    \/ TlAppend
    \/ TlBadTimecode
    \/ TlWrite

SpecTimeline == InitTimeline /\ [][NextTimeline]_vars

InitFrames ==
    /\ tc_in \in TimecodePool
    /\ fps_in \in FpsPool
    /\ tc_pc = "call"
    /\ tc_out = [ok |-> FALSE, frames |-> 0]
    /\ tc_prev = NoPrev
    /\ TlIdle
    /\ SvInit
    /\ LdInit

NextFrames ==
    \/ TcConvert
    \/ TcSecond

SpecFrames == InitFrames /\ [][NextFrames]_vars

\* the loading threads and the callers of the two properties
InitLoaders ==
    /\ LdInit
    /\ TlIdle
    /\ TcIdle
    /\ SvInit

NextLoaders ==
    \/ \E r \in Loaders : Load(r)
    \/ \E r \in Loaders : LoadDies(r)
    \/ \E c \in Callers, r \in Loaders : Access(c, r)
    \/ \E c \in Callers : AccessReturn(c)
    \/ \E e \in BOOLEAN, k \in {"", "beach", "snow"},
          d1 \in {"", "2024-01-01"}, d2 \in {"", "2024-12-31"} :
          Search([load_photos_db |-> e, keyword |-> k, start_date |-> d1, end_date |-> d2])

SpecLoaders == InitLoaders /\ [][NextLoaders]_vars

\* ------------------------------------------------------------------------
\* Properties of create_otio_timeline (SpecTimeline)
\* ------------------------------------------------------------------------
HasUrl(cut) == VideoFile(cut.video_id).download_url

RECURSIVE KeptCuts(_)
KeptCuts(cuts) ==
    IF cuts = <<>> THEN <<>>
    ELSE IF HasUrl(Head(cuts)) THEN <<Head(cuts)>> \o KeptCuts(Tail(cuts))
    ELSE KeptCuts(Tail(cuts))

ClipsOfKept(doc, kept) == [k \in 1..Len(kept) |-> clip_of(doc, kept[k])]

\* the clips of the cuts with a download URL among the first n cuts
ClipsOfFirst(doc, n) == ClipsOfKept(doc, KeptCuts(SubSeq(Cuts(doc), 1, n)))

\* C1: the clips on the track are, at every point of the loop and in the
\* written file, the clips of the cuts with a download URL among the cuts
\* processed so far, one clip per cut, in the order of the input.
C1_OrderPreserved ==
    /\ tl_pc = "loop" => track = ClipsOfFirst(edit_spec, cut_idx - 1)
    /\ tl_pc = "written" =>
          otio_file.clips = ClipsOfFirst(edit_spec, Len(Cuts(edit_spec)))

C1_Witness ==
    /\ tl_pc = "written"
    /\ Len(Cuts(edit_spec)) = 3
    /\ Len(otio_file.clips) = 2
    /\ otio_file.clips[1] # otio_file.clips[2]

\* C2: a step of the loop at a cut whose source has no download URL raises
\* nothing, appends nothing, downloads nothing and moves on to the next cut.
C2_SkipContinues ==
    [][ (/\ tl_pc = "loop"
         /\ cut_idx <= Len(Cuts(edit_spec))
         /\ ~HasUrl(Cuts(edit_spec)[cut_idx]))
        => (/\ tl_pc' = "loop"
            /\ tl_err' = "none"
            /\ cut_idx' = cut_idx + 1
            /\ track' = track
            /\ downloads' = downloads) ]_vars

C2_Witness ==
    /\ tl_pc = "written"
    /\ Len(Cuts(edit_spec)) = 3
    /\ HasUrl(Cuts(edit_spec)[1])
    /\ ~HasUrl(Cuts(edit_spec)[2])
    /\ HasUrl(Cuts(edit_spec)[3])
    /\ Len(otio_file.clips) = 2

\* C3: no clip on the track has a duration of zero frames or less.
C3_NoEmptyClip ==
    \A k \in 1..Len(track) : track[k].duration.value > 0

\* C8: a timeline file exists only once every cut has been processed, and
\* then holds one clip for each cut with a download URL; a run that raised
\* has written no file.
C8_AllOrNothing ==
    /\ tl_pc = "raised" => ~otio_file.written
    /\ otio_file.written =>
          /\ tl_pc = "written"
          /\ tl_err = "none"
          /\ Len(otio_file.clips) = Len(KeptCuts(Cuts(edit_spec)))

C8_Witness ==
    /\ tl_pc = "raised"
    /\ tl_err = "ValueError"
    /\ Len(track) >= 1
    /\ ~otio_file.written

\* C9: materialising a document built by one of the two handlers does not
\* fail on a missing field of the document.
C9_ServerDocumentsMaterialize ==
    origin \in {"videos", "single"} => tl_err # "KeyError"

\* ------------------------------------------------------------------------
\* Properties of timecode_to_frames (SpecFrames)
\* ------------------------------------------------------------------------
\* the timecodes "HH:MM:SS.mmm"
WellFormed(tc) ==
    /\ Len(tc) = 12
    /\ tc[3] = ":" /\ tc[6] = ":" /\ tc[9] = "."
    /\ \A i \in {1, 2, 4, 5, 7, 8, 10, 11, 12} : IsDigit(tc[i])

\* the wall-clock time of a well-formed timecode, in milliseconds
Millis(tc) ==
    ((DigitsVal(SubSeq(tc, 1, 2)) * 60 + DigitsVal(SubSeq(tc, 4, 5))) * 60
        + DigitsVal(SubSeq(tc, 7, 8))) * 1000
    + DigitsVal(SubSeq(tc, 10, 12))

\* floor(ms / 1000 * n / d), without intermediate overflow
ExactFloor(ms, n, d) ==
    (ms \div (1000 * d)) * n + ((ms % (1000 * d)) * n) \div (1000 * d)

\* C10: for a well-formed timecode the result is the product of the
\* wall-clock seconds and the frame rate, truncated toward zero.
C10_TruncatedProduct ==
    (tc_pc = "returned" /\ WellFormed(tc_in)) =>
        tc_out.frames = ExactFloor(Millis(tc_in), fps_in.n, fps_in.d)

\* C11: of two well-formed timecodes converted at the same frame rate, the
\* one earlier in wall-clock time never gets the larger frame count.
C11_Monotonic ==
    (tc_pc = "returned" /\ tc_prev # NoPrev
        /\ WellFormed(tc_in) /\ WellFormed(tc_prev.timecode)) =>
        /\ Millis(tc_prev.timecode) < Millis(tc_in) => tc_prev.frames <= tc_out.frames
        /\ Millis(tc_in) < Millis(tc_prev.timecode) => tc_out.frames <= tc_prev.frames

C11_Witness ==
    /\ tc_pc = "returned" /\ tc_prev # NoPrev
    /\ WellFormed(tc_in) /\ WellFormed(tc_prev.timecode)
    /\ Millis(tc_prev.timecode) < Millis(tc_in)
    /\ Millis(tc_in) - Millis(tc_prev.timecode) <= 100
    /\ tc_prev.frames < tc_out.frames

\* a component that is a decimal number without sign
IsNumeric(s) ==
    /\ \A i \in 1..Len(s) : IsDigit(s[i]) \/ s[i] = "."
    /\ Cardinality({i \in 1..Len(s) : s[i] = "."}) <= 1
    /\ \E i \in 1..Len(s) : IsDigit(s[i])

ComponentsOf(tc) == Split(tc, ":")

\* not exactly three components, or a component that is not numeric
\* (a negative component, with its leading "-", included)
Malformed(tc) ==
    \/ Len(ComponentsOf(tc)) # 3
    \/ \E i \in 1..Len(ComponentsOf(tc)) : ~IsNumeric(ComponentsOf(tc)[i])

\* C12: a malformed timecode is rejected and yields no frame count.
C12_MalformedRejected ==
    (tc_pc \in {"returned", "raised"} /\ Malformed(tc_in)) => tc_pc = "raised"

\* ------------------------------------------------------------------------
\* Properties of the edit handlers (Spec, SpecResolve)
\* ------------------------------------------------------------------------
\* a resolution that is neither absent, nor a preset, nor two positive
\* integers around one "x"
PositiveInt(s) == ParseInt(s).ok /\ ParseInt(s).val > 0
InvalidResolution(r) ==
    /\ r \notin {NoString, Res1080p, Res720p}
    /\ ~(/\ Len(Split(r, "x")) = 2
         /\ PositiveInt(Split(r, "x")[1])
         /\ PositiveInt(Split(r, "x")[2]))

RequiredFields(tool) ==
    IF tool = "videos" THEN {"video_id", "video_start_time", "video_end_time"}
    ELSE {"video_start_time", "video_end_time"}

LacksField(a) ==
    \E k \in 1..Len(a.edit) : ~(RequiredFields(a.tool) \subseteq DOMAIN a.edit[k])

\* C4: a call with an invalid resolution or a cut that lacks a required
\* field raises before any external effect.
C4_InvalidRequestAborts ==
    \A p \in Procs :
        (pc[p] # "idle" /\ (InvalidResolution(call[p].resolution) \/ LacksField(call[p])))
            => (pc[p] = "raised" /\ effects[p] = <<>>)

Resolved(p) == pc[p] \in {"render", "launch", "done"}

OpsOf(p) == [k \in 1..Len(effects[p]) |-> effects[p][k].op]
CountOp(p, op) == Cardinality({k \in 1..Len(effects[p]) : effects[p][k].op = op})

\* C5: the lookup comes first and uses the identifier; a lookup that
\* succeeded is followed by no create call and yields the project found,
\* created = false; a lookup that failed is followed by exactly one create
\* call that names the new project after the identifier, and yields that
\* project, created = true.
C5_GetOrCreate ==
    \A p \in Procs :
        /\ pc[p] = "create" => OpsOf(p) = <<"get_fail">>
        /\ Resolved(p) =>
              /\ effects[p][1].id = call[p].project_id
              /\ CountOp(p, "get_ok") + CountOp(p, "get_fail") = 1
              /\ IF effects[p][1].op = "get_ok"
                 THEN /\ ~created[p]
                      /\ CountOp(p, "create") = 0
                      /\ proj[p] \in snapshot[p]
                      /\ proj[p].id = call[p].project_id
                      /\ project[p] = call[p].project_id
                 ELSE /\ effects[p][1].op = "get_fail"
                      /\ created[p]
                      /\ CountOp(p, "create") = 1
                      /\ effects[p][2].op = "create"
                      /\ effects[p][2].name = call[p].project_id
                      /\ proj[p].name = call[p].project_id
                      /\ proj[p] \in projects \ snapshot[p]
                      /\ project[p] = proj[p].id

C5_Witness ==
    /\ pc[1] = "done"
    /\ created[1]
    /\ Len(history[1]) = 1
    /\ ~history[1][1].created
    /\ history[1][1].proj = ExistingProject

\* C6: two resolvers that both created a project for the same identifier
\* created two different projects with the same display name; neither
\* create call was held back by the other's.
C6_NoAtomicity ==
    \A p \in Procs, q \in Procs :
        (/\ p # q
         /\ Resolved(p) /\ Resolved(q)
         /\ created[p] /\ created[q]
         /\ call[p].project_id = call[q].project_id)
        => (/\ proj[p] # proj[q]
            /\ proj[p].name = proj[q].name
            /\ {proj[p], proj[q]} \subseteq projects)

NamedLike(catalog, name) == {pr \in catalog : pr.name = name}

\* both lookups saw no project of that name, and both calls created one
C6_Witness ==
    /\ pc[1] = "done" /\ pc[2] = "done"
    /\ created[1] /\ created[2]
    /\ call[1].project_id = 60 /\ call[2].project_id = 60
    /\ NamedLike(snapshot[1], 60) = {} /\ NamedLike(snapshot[2], 60) = {}
    /\ Cardinality(NamedLike(projects, 60)) = 2

\* C7: when an identifier is the id of no project, a call that follows a
\* call that created a project for it creates another project of the same
\* name.
C7_SequentialDuplicate ==
    \A p \in Procs :
        \A i \in 1..Len(history[p]), j \in 1..Len(history[p]) :
            (/\ i < j
             /\ history[p][i].project_id = history[p][j].project_id
             /\ history[p][i].created
             /\ \A pr \in projects : pr.id # history[p][i].project_id)
            => (/\ history[p][j].created
                /\ history[p][j].proj # history[p][i].proj
                /\ history[p][j].proj.name = history[p][i].proj.name
                /\ {history[p][i].proj, history[p][j].proj} \subseteq projects)

C7_Witness ==
    /\ Len(history[1]) = 2
    /\ history[1][1].project_id = 60 /\ history[1][2].project_id = 60
    /\ history[1][1].created /\ history[1][2].created
    /\ Cardinality(NamedLike(projects, 60)) = 2

\* everything but the resolution is as the handler requires
OtherArgsValid(a) ==
    /\ a.edit # <<>>
    /\ a.project_id # NoProject
    /\ ~LacksField(a)
    /\ a.tool = "videos" => a.name # ""
    /\ a.tool = "single" => a.video_id # ""

\* the rules in order: default, presets, then the "WxH" string itself
ExpectedResolution(r) ==
    IF r = NoString THEN <<"1", "0", "8", "0", "x", "1", "9", "2", "0">>
    ELSE IF r = <<"1", "0", "8", "0", "p">> THEN <<"1", "9", "2", "0", "x", "1", "0", "8", "0">>
    ELSE IF r = <<"7", "2", "0", "p">> THEN <<"1", "2", "8", "0", "x", "7", "2", "0">>
    ELSE r

\* C13: in either handler an absent resolution, a preset or a "WxH" string
\* of positive integers is accepted, and the edit document carries the
\* default, the preset's size or the string itself.
C13_ResolutionRules ==
    \A p \in Procs :
        (/\ pc[p] # "idle"
         /\ OtherArgsValid(call[p])
         /\ ~InvalidResolution(call[p].resolution))
            => /\ pc[p] # "raised"
               /\ json_edit[p].video_output_resolution
                     = ExpectedResolution(call[p].resolution)

\* C14: a resolution that is neither absent, nor a preset, nor two positive
\* integers around one "x" makes the call raise, and is never rendered.
C14_InvalidResolutionRaises ==
    \A p \in Procs :
        (pc[p] # "idle" /\ InvalidResolution(call[p].resolution))
            => /\ pc[p] = "raised"
               /\ CountOp(p, "render") = 0

\* the handler of p has built its cut list
Built(p) == pc[p] \notin {"idle", "raised"}

\* the decimal string s reads as the number n / d
ReadsAs(s, n, d) ==
    /\ ParseFloat(s).ok
    /\ ParseFloat(s).val = FloatFromDecimal(FALSE, n, d)

\* the cut out is the raw cut with the given video id, type "videofile"
\* and one audio level of 0.5 over the span of the cut
IsCutSpec(out, raw, video_id) ==
    /\ out.video_start_time = raw.video_start_time
    /\ out.video_end_time = raw.video_end_time
    /\ out.type = "videofile"
    /\ out.video_id = video_id
    /\ Len(out.audio_levels) = 1
    /\ ReadsAs(out.audio_levels[1].audio_level, 5, 10)
    /\ out.audio_levels[1].start_time = raw.video_start_time
    /\ out.audio_levels[1].end_time = raw.video_end_time

\* the video id the cut list gives a raw cut: the call's video_id in
\* single-video mode, the cut's own in multi-video mode
IdFor(a, raw) == IF a.tool = "single" THEN a.video_id ELSE raw.video_id

\* C15: the cut list of the edit document has the length and order of the
\* raw cut list, and each of its cuts is the raw cut at that position with
\* type "videofile", one audio level of 0.5 over the cut's span and the
\* video id of its mode.
C15_NormalizedCuts ==
    \A p \in Procs :
        Built(p) =>
            /\ Len(Cuts(json_edit[p])) = Len(call[p].edit)
            /\ \A k \in 1..Len(call[p].edit) :
                  IsCutSpec(Cuts(json_edit[p])[k], call[p].edit[k],
                            IdFor(call[p], call[p].edit[k]))

\* a multi-video call with two different cuts, and a single-video call
\* whose cut names no video, have built their cut lists
C15_Witness ==
    /\ \E p \in Procs :
          /\ Built(p) /\ call[p].tool = "videos"
          /\ Len(call[p].edit) = 2
          /\ call[p].edit[1] # call[p].edit[2]
    \/ \E p \in Procs :
          /\ Built(p) /\ call[p].tool = "single"
          /\ "video_id" \notin DOMAIN call[p].edit[1]
          /\ Cuts(json_edit[p])[1].video_id = "v1"

\* the first raw cut without one of the fields its mode requires
FirstLacking(a) ==
    CHOOSE k \in 1..Len(a.edit) :
        /\ ~(RequiredFields(a.tool) \subseteq DOMAIN a.edit[k])
        /\ \A j \in 1..(k - 1) : RequiredFields(a.tool) \subseteq DOMAIN a.edit[j]

\* the call reaches its cut list: the checks on the other arguments pass
ReachesCuts(a) ==
    /\ a.edit # <<>>
    /\ a.project_id # NoProject
    /\ a.tool = "videos" => a.name # ""
    /\ a.tool = "single" => a.video_id # ""
    /\ ~InvalidResolution(a.resolution)
    /\ a.tool = "single" => a.resolution \notin {Res1080p, Res720p}

\* the validation error of the handlers
MissingFieldError == "ValueError"

\* C16: in either mode a raw cut without a required field makes the call
\* raise the handlers' validation error, for the first such cut, and no
\* cut list is built.
C16_MissingFieldSameError ==
    \A p \in Procs :
        (pc[p] # "idle" /\ ReachesCuts(call[p]) /\ LacksField(call[p])) =>
            /\ pc[p] = "raised"
            /\ err[p].type = MissingFieldError
            /\ err[p].cut = FirstLacking(call[p])
            /\ json_edit[p] = NoEdit

\* ------------------------------------------------------------------------
\* Properties of the clips' time ranges (SpecTimeline)
\* ------------------------------------------------------------------------
\* the cuts behind the clips of the written file, in order
WrittenCuts == KeptCuts(Cuts(edit_spec))

\* a whole-number frame rate, as an integer
RateOf(rt) == FloatToInt(rt.rate)

\* frames at rate fps, read back as wall-clock time, are at most one frame
\* away from ms milliseconds: |ms / 1000 * fps - frames| <= 1
WithinOneFrame(ms, frames, fps) ==
    /\ ms * fps - frames * 1000 <= 1000
    /\ frames * 1000 - ms * fps <= 1000

RoundTrips(clip, cut) ==
    /\ FloatFromInt(RateOf(clip.start)) = clip.start.rate
    /\ clip.duration.rate = clip.start.rate
    /\ WithinOneFrame(Millis(cut.video_start_time), clip.start.value, RateOf(clip.start))
    /\ WithinOneFrame(Millis(cut.video_end_time),
                      clip.start.value + clip.duration.value, RateOf(clip.start))

\* C17: the k-th clip of the written timeline, read back as start and
\* start + duration at its rate, is within one frame of the start and end
\* timecodes of the k-th cut that has a download URL.
C17_RoundTrip ==
    tl_pc = "written" =>
        /\ Len(otio_file.clips) = Len(WrittenCuts)
        /\ \A k \in 1..Len(otio_file.clips) :
              RoundTrips(otio_file.clips[k], WrittenCuts[k])

\* three cuts were written in order, and the first one's start is a whole
\* frame away from its timecode (4.1 s at 30 fps is frame 123, stored 122)
C17_Witness ==
    /\ tl_pc = "written"
    /\ Len(otio_file.clips) = 3
    /\ otio_file.clips[1].start.value * 1000
          = Millis(WrittenCuts[1].video_start_time) * RateOf(otio_file.clips[1].start) - 1000
    /\ otio_file.clips[2] # otio_file.clips[1]

\* the frame rate of a source: its own when set, 24.0 otherwise
SourceRate(video) == IF video.has_fps THEN video.fps ELSE FloatFromInt(24)

\* the clip's range is the cut's, converted at the rate of the cut's source
RangeOfSource(clip, cut, rate) ==
    /\ clip.start.rate = rate
    /\ clip.duration.rate = rate
    /\ clip.start.value = create_rational_time(cut.video_start_time, rate).value
    /\ clip.duration.value
          = create_rational_time(cut.video_end_time, rate).value - clip.start.value

\* C18: every clip starts at its cut's start and lasts to its cut's end,
\* both converted at the frame rate of the cut's own source (24.0 when the
\* source has none), and its start and duration have that one rate.
C18_OwnSourceRate ==
    tl_pc \in {"loop", "written"} =>
        \A k \in 1..Len(track) :
            RangeOfSource(track[k], WrittenCuts[k],
                          SourceRate(VideoFile(WrittenCuts[k].video_id)))

\* clips of a source at 30 fps and of a source without a rate, in one file
C18_Witness ==
    /\ tl_pc = "written"
    /\ Len(otio_file.clips) >= 2
    /\ otio_file.clips[1].start.rate = FloatFromInt(30)
    /\ otio_file.clips[2].start.rate = FloatFromInt(24)
    /\ ~VideoFile(WrittenCuts[2].video_id).has_fps

\* the download calls of the run that write the file f
DownloadsTo(f) == {i \in 1..Len(downloads) : downloads[i].file = f}

\* C19: within one run no local media file is fetched more than once.
C19_FetchedOnce ==
    \A i \in 1..Len(downloads) : Cardinality(DownloadsTo(downloads[i].file)) <= 1

\* ------------------------------------------------------------------------
\* Properties of the background loaders (SpecLoaders)
\* ------------------------------------------------------------------------
\* the caller has finished an access
Accessed(c) == accesses[c] > 0 /\ acc_pc[c] = "out"

\* an access made while the resource was not loaded raised, at once; one
\* made after it was loaded returned the loaded resource
AccessOutcome(c) ==
    /\ (Accessed(c) /\ acc_seen[c] = NoResource) => acc_out[c] = "raised"
    /\ (Accessed(c) /\ acc_seen[c] # NoResource) => acc_out[c] = Loaded(acc_of[c])
    /\ acc_pc[c] = "return" => acc_seen[c] = Loaded(acc_of[c])

\* whatever the loading threads are doing, the caller can take its next step
CallerCanStep(c) ==
    /\ acc_pc[c] = "return" => ENABLED AccessReturn(c)
    /\ (acc_pc[c] = "out" /\ accesses[c] < MaxAccesses) =>
          \A r \in Loaders : ENABLED Access(c, r)

\* a loaded resource stays loaded
StaysReady == \A r \in Loaders : held[r] # NoResource => held'[r] = held[r]

\* C20: an access never waits for the loading thread; before the load has
\* completed it raises at once, after it it returns the loaded resource,
\* and a resource that is ready is never not ready again.
C20_NeverBlocks ==
    /\ [](\A c \in Callers : AccessOutcome(c) /\ CallerCanStep(c))
    /\ [][StaysReady]_vars

\* for one resource, one caller was turned away and another, later, got it
C20_Witness ==
    /\ Accessed(1) /\ acc_of[1] = "model" /\ acc_out[1] = "raised"
    /\ Accessed(2) /\ acc_of[2] = "model" /\ acc_out[2] = Loaded("model")
    /\ ld_pc["photos"] = "loading"

\* ------------------------------------------------------------------------
\* Properties of the process state across calls (Spec)
\* ------------------------------------------------------------------------
\* the effects with operation op that the call of p made in directory dir
OpsIn(p, op, dir) ==
    {k \in 1..Len(effects[p]) : effects[p][k].op = op /\ effects[p][k].dir = dir}

\* the directory the server process was started in
StartDir == "root"

\* C21: a call that has succeeded has left the working directory as it
\* found it, the directory the process started in; it has launched the
\* viewer once, and a generate-edit-from-videos call has written its
\* document and launched the timeline generation once, from that directory.
C21_EveryCallLikeFirst ==
    \A p \in Procs :
        pc[p] = "done" =>
            /\ effects[p][1].dir = StartDir
            /\ cwd[p] = effects[p][1].dir
            /\ CountOp(p, "popen_viewer") = 1
            /\ call[p].tool = "videos" =>
                  /\ Cardinality(OpsIn(p, "write_json", StartDir)) = 1
                  /\ Cardinality(OpsIn(p, "popen_otio", StartDir)) = 1

\* ------------------------------------------------------------------------
\* Properties of search-local-videos (SpecLoaders)
\* ------------------------------------------------------------------------
\* the videos of the library labelled with the keyword
Labelled(keyword) == IF keyword = "beach" THEN <<"IMG_1.mov">> ELSE <<>>

\* C22: a search with LOAD_PHOTOS_DB set and a keyword, made once the
\* photos database is loaded, returns the videos with that label; the
\* call raises its RuntimeError only while the database is not loaded.
C22_SearchAfterLoad ==
    /\ (/\ search.done
         /\ search.args.load_photos_db
         /\ search.args.keyword # ""
         /\ search.db # NoResource)
            => /\ search.out.raised = "none"
               /\ search.out.videos = Labelled(search.args.keyword)
    /\ (search.done /\ search.out.raised = "RuntimeError") => search.db = NoResource

====
